---- MODULE Spec2Model ----
(***************************************************************************)
(* A model of multi_epoch_dp_matrix_factorization/matrix_io.py: the path   *)
(* resolver, the artifact codec over a blob store, the sensitivity scaler, *)
(* the reconstruction verifier and the write pipeline.                     *)
(*                                                                         *)
(* Strings are sequences of tokens.  A token is a single character where   *)
(* the code looks at characters (the digits of a formatted number) and a   *)
(* whole literal where it does not ("momentum_0p", "size=", a blob name).  *)
(* Matrix entries are float64 values that happen to be integers, so the    *)
(* matrix product and the tolerance test are exact integer arithmetic.     *)
(***************************************************************************)
EXTENDS Integers, Sequences, FiniteSets, TLC

VARIABLES fs, last, wpc, wcall, lpc, lbuf, history, call, ret

vars == <<fs, last, wpc, wcall, lpc, lbuf, history, call, ret>>

(* ------------------------------ bounds -------------------------------- *)

\* Largest matrix dimension n (W, H and S are n x n, the LR vector has up to n entries).
MaxDim == 2
\* Largest iteration count handed to the path resolver (two digits are reached).
MaxN == 11
\* Largest entry multiplier of the matrices handed to the scaler.
MaxVal == 2
\* Number of verification-passing verify_and_write calls one concurrent run makes.
MaxCalls == 2

(* --------------------------- module constants -------------------------- *)

_FACTORIZATION_ROOT == <<"/tmp/matrix_factorizations">>
W_MATRIX_STRING == <<"w_matrix_tensor_pb">>
H_MATRIX_STRING == <<"h_matrix_tensor_pb">>
LR_VECTOR_STRING == <<"lr_vector_tensor_pb">>
PREFIX_ONLINE_HONAKER == <<"prefix_online_honaker">>
PREFIX_FULL_HONAKER == <<"prefix_full_honaker">>
PREFIX_OPT == <<"prefix_opt">>

\* Python's None, and a raised exception, in the shape of a tensor record so that
\* every value a call can yield compares with every other.
None == [dtype |-> "None", rank |-> 0, val |-> <<>>]
Raised(exc) == [dtype |-> exc, rank |-> 0, val |-> <<>>]
Exceptions ==
  {"InvalidArgumentError", "NotFoundError", "ValueError", "AssertionError"}
IsNone(x) == x.dtype = "None"
IsRaised(x) == x.dtype \in Exceptions

(* ------------------------------ tensors -------------------------------- *)

Abs(x) == IF x < 0 THEN -x ELSE x

\* A tensor: its dtype, its rank (1 or 2) and its nested value.
Tensor(dtype, rank, val) == [dtype |-> dtype, rank |-> rank, val |-> val]

Rows(m) == Len(m)
Cols(m) == Len(m[1])

Ident(n) == [i \in 1..n |-> [j \in 1..n |-> IF i = j THEN 1 ELSE 0]]
\* The prefix-sum target: the lower-triangular matrix of ones.
Prefix(n) == [i \in 1..n |-> [j \in 1..n |-> IF j <= i THEN 1 ELSE 0]]
Scaled(v, m) == [i \in 1..Rows(m) |-> [j \in 1..Cols(m) |-> v * m[i][j]]]

\* The two shapes in play: the degenerate 1 x 1 and the MaxDim x MaxDim.
Dims == {1, MaxDim}
Matrices == {Ident(n) : n \in Dims} \cup {Prefix(n) : n \in Dims}

\* The tensors a caller hands in as W or H: every matrix as float64, and one
\* tensor of the dtype TensorFlow gives a float literal by default.
WHInputs ==
  {Tensor("float64", 2, m) : m \in Matrices} \cup {Tensor("float32", 2, Ident(1))}
\* The targets: the prefix-sum matrices.
SInputs == {Tensor("float64", 2, Prefix(n)) : n \in Dims}
LRInputs ==
  {Tensor("float64", 1, [i \in 1..n |-> 1]) : n \in Dims}
    \cup {Tensor("float32", 1, <<1>>)}

\* w_matrix @ h_matrix; the inner dimensions must agree.
MatMulDefined(a, b) == Cols(a) = Rows(b)

RECURSIVE SumTo(_, _)
SumTo(f, k) == IF k = 0 THEN 0 ELSE f[k] + SumTo(f, k - 1)

MatMul(a, b) ==
  [i \in 1..Rows(a) |->
     [j \in 1..Cols(b) |-> SumTo([k \in 1..Cols(a) |-> a[i][k] * b[k][j]], Cols(a))]]

\* rtol=1e-6 and atol=1e-8 in units of 1e-8.
TolScale == 100000000
RtolScaled == 100
AtolScaled == 1

\* The shape test of assert_allclose: two arrays of rank 2 must have the same
\* shape (only a rank-0 operand is broadcast).
SameShape(a, b) == Rows(a) = Rows(b) /\ Cols(a) = Cols(b)

Max(a, b) == IF a > b THEN a ELSE b

\* np.testing.assert_allclose(actual, desired, rtol, atol) passes:
\* |actual - desired| <= atol + rtol * |desired| at every entry.
AllClose(actual, desired) ==
  /\ SameShape(actual, desired)
  /\ \A i \in 1..Rows(actual) :
       \A j \in 1..Cols(actual) :
         TolScale * Abs(actual[i][j] - desired[i][j])
           <= AtolScaled + RtolScaled * Abs(desired[i][j])

\* The verifier without its two dtype assertions.
verify_reconstruction_no_dtype(w_matrix, h_matrix, s_matrix) ==
  IF ~MatMulDefined(w_matrix.val, h_matrix.val) THEN "InvalidArgumentError"
  ELSE IF ~AllClose(s_matrix.val, MatMul(w_matrix.val, h_matrix.val))
  THEN "AssertionError"
  ELSE "ok"

\* "ok" when the function returns, else the exception it raises.
verify_reconstruction(w_matrix, h_matrix, s_matrix) ==
  IF w_matrix.dtype # "float64" THEN "AssertionError"
  ELSE IF h_matrix.dtype # "float64" THEN "AssertionError"
  ELSE IF ~MatMulDefined(w_matrix.val, h_matrix.val) THEN "InvalidArgumentError"
  ELSE IF ~AllClose(s_matrix.val, MatMul(w_matrix.val, h_matrix.val))
  THEN "AssertionError"
  ELSE "ok"

(* ---------------------------- serialization ---------------------------- *)

RECURSIVE Concat(_)
Concat(seqs) == IF seqs = <<>> THEN <<>> ELSE Head(seqs) \o Concat(Tail(seqs))

\* tf.io.serialize_tensor: a TensorProto of dtype, shape and row-major content.
serialize_tensor(t) ==
  [dtype |-> t.dtype,
   shape |-> IF t.rank = 1 THEN <<Len(t.val)>> ELSE <<Rows(t.val), Cols(t.val)>>,
   content |-> IF t.rank = 1 THEN t.val ELSE Concat(t.val)]

\* tf.io.parse_tensor(serialized, out_type): the stored dtype must be out_type.
parse_tensor(proto, out_type) ==
  IF proto.dtype # out_type THEN Raised("InvalidArgumentError")
  ELSE IF Len(proto.shape) = 1
  THEN Tensor(out_type, 1, proto.content)
  ELSE Tensor(out_type, 2,
         [i \in 1..proto.shape[1] |->
            [j \in 1..proto.shape[2] |-> proto.content[(i - 1) * proto.shape[2] + j]]])

(* -------------------------------- paths -------------------------------- *)

\* The flag's value: its default.
MATRIX_ROOT_PATH == _FACTORIZATION_ROOT

DigitChars == <<"0", "1", "2", "3", "4", "5", "6", "7", "8", "9">>
IsDigit(tok) == \E d \in 1..10 : DigitChars[d] = tok
DigitValue(tok) == (CHOOSE d \in 1..10 : DigitChars[d] = tok) - 1

\* The decimal digits of n >= 0, most significant first.
RECURSIVE Digits(_)
Digits(n) == IF n < 10 THEN <<DigitChars[n + 1]>>
             ELSE Digits(n \div 10) \o <<DigitChars[(n % 10) + 1]>>

\* f'{n:d}'
FormatD(n) == IF n < 0 THEN <<"-">> \o Digits(-n) ELSE Digits(n)

\* '/'.join(args)
RECURSIVE _join_path(_)
_join_path(args) ==
  IF Len(args) = 0 THEN <<>>
  ELSE IF Len(args) = 1 THEN args[1]
  ELSE args[1] \o <<"/">> \o _join_path(Tail(args))

\* A resolver that leaves n out of the size segment.
get_matrix_path_no_size(n, mechanism_name) ==
  _join_path(<<MATRIX_ROOT_PATH, mechanism_name, <<"size=">>>>)

get_matrix_path(n, mechanism_name) ==
  LET size_str == <<"size=">> \o FormatD(n)
  IN  _join_path(<<MATRIX_ROOT_PATH, mechanism_name, size_str>>)

\* A momentum is a float; the model holds it in thousandths (370 is 0.37).
\* x / 10 rounded to the nearest integer, halves to even: what round(m, 2) and
\* the format '.0f' of 100*m do to a value given in thousandths.
RoundHalfEven10(x) ==
  LET q == x \div 10
      r == x % 10
  IN  IF r < 5 THEN q
      ELSE IF r > 5 THEN q + 1
      ELSE IF q % 2 = 0 THEN q ELSE q + 1

\* f'{v:02.0f}' of the integer v the rounding left: zero-padded to width 2.
Format02(v) ==
  IF v < 0 THEN <<"-">> \o Digits(-v)
  ELSE IF v < 10 THEN <<"0">> \o Digits(v)
  ELSE Digits(v)

PathResult(exc, path) == [exc |-> exc, path |-> path]

get_momentum_path(n, momentum) ==
  IF ~(0 <= momentum /\ momentum <= 1000) THEN PathResult("ValueError", <<>>)
  ELSE IF 10 * RoundHalfEven10(momentum) # momentum THEN PathResult("ValueError", <<>>)
  ELSE PathResult("ok",
         get_matrix_path(n, <<"momentum_0p">> \o Format02(RoundHalfEven10(momentum))))

\* An Optional[float]: None, or a momentum in thousandths.
OptNone == [is_none |-> TRUE, value |-> 0]
OptSome(v) == [is_none |-> FALSE, value |-> v]

\* re.search(r'momentum_0p(\d\d)', path): the leftmost match.
MomentumMatches(path) ==
  {i \in 1..Len(path) :
     /\ path[i] = "momentum_0p"
     /\ i + 2 <= Len(path)
     /\ IsDigit(path[i + 1])
     /\ IsDigit(path[i + 2])}

infer_momentum_from_path(path) ==
  IF MomentumMatches(path) # {}
  THEN LET i == CHOOSE k \in MomentumMatches(path) : \A m \in MomentumMatches(path) : k <= m
       IN  OptSome(10 * (10 * DigitValue(path[i + 1]) + DigitValue(path[i + 2])))
  ELSE OptNone

(* ----------------------------- blob store ------------------------------ *)

\* The directories the write pipeline is pointed at.
OutputDirs == {<<"out_a">>, <<"out_b">>}
BlobNames == {W_MATRIX_STRING, H_MATRIX_STRING, LR_VECTOR_STRING}
FilePaths == {_join_path(<<d, b>>) : d \in OutputDirs, b \in BlobNames}
\* The paths a load is pointed at: the directories, and a blob inside one (a
\* path that exists once written and is no container).
LoadPaths == OutputDirs \cup {_join_path(<<d, W_MATRIX_STRING>>) : d \in OutputDirs}

\* What the store holds at a file path that has no blob.
NoFile == [dtype |-> "absent", shape |-> <<>>, content |-> <<>>]

IsFile(fsys, path) == path \in DOMAIN fsys /\ fsys[path] # NoFile

\* A directory of the flat namespace lives as long as a blob lies under it.
IsUnder(file, dir) ==
  /\ Len(file) > Len(dir) + 1
  /\ SubSeq(file, 1, Len(dir)) = dir
  /\ file[Len(dir) + 1] = "/"

\* tf.io.gfile.isdir
isdir(fsys, path) == \E f \in DOMAIN fsys : fsys[f] # NoFile /\ IsUnder(f, path)

\* tf.io.gfile.exists
exists(fsys, path) == IsFile(fsys, path) \/ isdir(fsys, path)

\* tf.io.read_file: the blob, or NoFile when the read raises NotFoundError.
read_file(fsys, path) == IF IsFile(fsys, path) THEN fsys[path] ELSE NoFile

\* tf.io.write_file: creates or overwrites the blob (and its directories).
write_file(fsys, path, contents) == [fsys EXCEPT ![path] = contents]

(* --------------------------- artifact codec ---------------------------- *)

\* The three blobs of an artifact directory.
WFile(d) == _join_path(<<d, W_MATRIX_STRING>>)
HFile(d) == _join_path(<<d, H_MATRIX_STRING>>)
LRFile(d) == _join_path(<<d, LR_VECTOR_STRING>>)

LoadResult(exc, w, h, lr) == [exc |-> exc, w |-> w, h |-> h, lr |-> lr]
LoadRaised(exc) == LoadResult(exc, None, None, None)

\* The part of load_w_h_and_maybe_lr after the W and H blobs were read: the
\* check for the learning-rate blob, its read, and the return.
load_lr_and_return(fsys, path, w_matrix, h_matrix) ==
  LET lr_file == LRFile(path)
  IN  IF exists(fsys, lr_file)
      THEN LET lr_tensor == parse_tensor(read_file(fsys, lr_file), "float64")
           IN  IF IsRaised(lr_tensor) THEN LoadRaised(lr_tensor.dtype)
               ELSE LoadResult("ok", w_matrix, h_matrix, lr_tensor)
      ELSE LoadResult("ok", w_matrix, h_matrix, None)

\* tf.io.parse_tensor(tf.io.read_file(file), tf.float64): the tensor, or what is raised.
read_tensor(fsys, file) ==
  IF read_file(fsys, file) = NoFile THEN Raised("NotFoundError")
  ELSE parse_tensor(read_file(fsys, file), "float64")

load_w_h_and_maybe_lr(fsys, path) ==
  IF ~(exists(fsys, path) /\ isdir(fsys, path)) THEN LoadRaised("ValueError")
  ELSE LET w_matrix == read_tensor(fsys, WFile(path))
           h_matrix == read_tensor(fsys, HFile(path))
       IN  IF IsRaised(w_matrix) THEN LoadRaised(w_matrix.dtype)
           ELSE IF IsRaised(h_matrix) THEN LoadRaised(h_matrix.dtype)
           ELSE load_lr_and_return(fsys, path, w_matrix, h_matrix)

(* --------------------------- write pipeline ---------------------------- *)

put_w(fsys, output_dir, w_matrix) ==
  write_file(fsys, WFile(output_dir), serialize_tensor(w_matrix))

\* A pipeline step that puts no H blob.
put_h_skipped(fsys, output_dir, h_matrix) == fsys

put_h(fsys, output_dir, h_matrix) ==
  write_file(fsys, HFile(output_dir), serialize_tensor(h_matrix))

put_lr(fsys, output_dir, lr_sched) ==
  write_file(fsys, LRFile(output_dir), serialize_tensor(lr_sched))

\* A length assertion that never fails.
lr_len_ok_unchecked(lr_sched, h_matrix) == TRUE

\* assert len(lr_sched) == h_matrix.shape[1]
lr_len_ok(lr_sched, h_matrix) == Len(lr_sched.val) = Cols(h_matrix.val)

\* What a call leaves: the store, "ok" or the exception raised, and the
\* statement the call ended at.
WriteResult(fsys, exc, at) == [fs |-> fsys, exc |-> exc, at |-> at]

verify_and_write(fsys, w_matrix, h_matrix, s_matrix, output_dir, lr_sched) ==
  LET verdict == verify_reconstruction(w_matrix, h_matrix, s_matrix)
      fs1 == put_w(fsys, output_dir, w_matrix)
      fs2 == put_h(fs1, output_dir, h_matrix)
  IN  IF verdict # "ok" THEN WriteResult(fsys, verdict, "verify_reconstruction")
      ELSE IF IsNone(lr_sched) THEN WriteResult(fs2, "ok", "return")
      ELSE IF ~lr_len_ok(lr_sched, h_matrix)
      THEN WriteResult(fs2, "AssertionError", "assert_len")
      ELSE WriteResult(put_lr(fs2, output_dir, lr_sched), "ok", "return")

(* ------------------- sequential calls on one store --------------------- *)

NoCall == [op |-> "none"]

InitStore == [f \in FilePaths |-> NoFile]

Init ==
  /\ fs = InitStore
  /\ last = NoCall
  /\ wpc = "idle"
  /\ wcall = NoCall
  /\ lpc = "idle"
  /\ lbuf = NoCall
  /\ history = {}
  /\ call = NoCall
  /\ ret = NoCall

\* One whole call of verify_and_write; last keeps how it ended and, of a call
\* that returned, the tensors it was handed.
VerifyAndWrite ==
  \E w \in WHInputs, h \in WHInputs, s \in SInputs, d \in OutputDirs,
     lr \in LRInputs \cup {None} :
    LET r == verify_and_write(fs, w, h, s, d, lr)
    IN  /\ fs' = r.fs
        /\ last' = [op |-> "verify_and_write", path |-> d, exc |-> r.exc, at |-> r.at,
                    given |-> IF r.exc = "ok" THEN <<w, h, lr>> ELSE <<>>]
        /\ UNCHANGED <<wpc, wcall, lpc, lbuf, history, call, ret>>

\* One whole call of load_w_h_and_maybe_lr; last keeps what it returned or raised.
Load ==
  \E path \in LoadPaths :
    /\ last' = [op |-> "load_w_h_and_maybe_lr", path |-> path,
                result |-> load_w_h_and_maybe_lr(fs, path)]
    /\ UNCHANGED <<fs, wpc, wcall, lpc, lbuf, history, call, ret>>

Next == VerifyAndWrite \/ Load

Spec == Init /\ [][Next]_vars

(* ------------- one writer and one loader, statement by statement ------- *)

CallEnded(d, exc, at) ==
  [op |-> "verify_and_write", path |-> d, exc |-> exc, at |-> at, given |-> <<>>]

\* The call starts: verify_reconstruction runs on the arguments.
WBegin(w, h, s, d, lr) ==
  /\ wpc = "idle"
  /\ IF verify_reconstruction(w, h, s) # "ok"
     THEN /\ last' = CallEnded(d, verify_reconstruction(w, h, s), "verify_reconstruction")
          /\ UNCHANGED <<wpc, wcall>>
     ELSE /\ wpc' = "put_w"
          /\ wcall' = [w |-> w, h |-> h, lr |-> lr, dir |-> d]
          /\ UNCHANGED last
  /\ UNCHANGED <<fs, lpc, lbuf, call, ret>>

\* tf.io.write_file of the W blob.
WPutW ==
  /\ wpc = "put_w"
  /\ fs' = put_w(fs, wcall.dir, wcall.w)
  /\ wpc' = "put_h"
  /\ UNCHANGED <<last, wcall, lpc, lbuf, history, call, ret>>

\* tf.io.write_file of the H blob; the call returns when lr_sched is None.
WPutH ==
  /\ wpc = "put_h"
  /\ fs' = put_h(fs, wcall.dir, wcall.h)
  /\ IF IsNone(wcall.lr)
     THEN /\ wpc' = "idle"
          /\ wcall' = NoCall
          /\ last' = CallEnded(wcall.dir, "ok", "return")
     ELSE /\ wpc' = "put_lr"
          /\ UNCHANGED <<wcall, last>>
  /\ UNCHANGED <<lpc, lbuf, history, call, ret>>

\* The length assertion, then tf.io.write_file of the learning-rate blob.
WPutLR ==
  /\ wpc = "put_lr"
  /\ IF lr_len_ok(wcall.lr, wcall.h)
     THEN /\ fs' = put_lr(fs, wcall.dir, wcall.lr)
          /\ last' = CallEnded(wcall.dir, "ok", "return")
     ELSE /\ fs' = fs
          /\ last' = CallEnded(wcall.dir, "AssertionError", "assert_len")
  /\ wpc' = "idle"
  /\ wcall' = NoCall
  /\ UNCHANGED <<lpc, lbuf, history, call, ret>>

WriterBegins ==
  \E w \in WHInputs, h \in WHInputs, s \in SInputs, d \in OutputDirs,
     lr \in LRInputs \cup {None} :
    WBegin(w, h, s, d, lr) /\ UNCHANGED history

StepsNext == WriterBegins \/ WPutW \/ WPutH \/ WPutLR

\* One caller of verify_and_write, one statement at a time.
SpecSteps == Init /\ [][StepsNext]_vars

\* The directory the concurrent writer and loader meet at.
SharedDir == CHOOSE d \in OutputDirs : d[1] = "out_a"

Loading(path, w, h) == [path |-> path, w |-> w, h |-> h, result |-> LoadRaised("pending")]
Loaded(path, result) == [path |-> path, w |-> None, h |-> None, result |-> result]

\* The directory check of load_w_h_and_maybe_lr.
LBegin ==
  /\ lpc = "idle"
  /\ IF ~(exists(fs, SharedDir) /\ isdir(fs, SharedDir))
     THEN /\ lpc' = "done"
          /\ lbuf' = Loaded(SharedDir, LoadRaised("ValueError"))
     ELSE /\ lpc' = "read_w"
          /\ lbuf' = Loading(SharedDir, None, None)
  /\ UNCHANGED <<fs, last, wpc, wcall, history, call, ret>>

LReadW ==
  /\ lpc = "read_w"
  /\ LET w_matrix == read_tensor(fs, WFile(lbuf.path))
     IN  IF IsRaised(w_matrix)
         THEN /\ lpc' = "done"
              /\ lbuf' = Loaded(lbuf.path, LoadRaised(w_matrix.dtype))
         ELSE /\ lpc' = "read_h"
              /\ lbuf' = Loading(lbuf.path, w_matrix, None)
  /\ UNCHANGED <<fs, last, wpc, wcall, history, call, ret>>

LReadH ==
  /\ lpc = "read_h"
  /\ LET h_matrix == read_tensor(fs, HFile(lbuf.path))
     IN  IF IsRaised(h_matrix)
         THEN /\ lpc' = "done"
              /\ lbuf' = Loaded(lbuf.path, LoadRaised(h_matrix.dtype))
         ELSE /\ lpc' = "lr_exists"
              /\ lbuf' = Loading(lbuf.path, lbuf.w, h_matrix)
  /\ UNCHANGED <<fs, last, wpc, wcall, history, call, ret>>

\* tf.io.gfile.exists(lr_file)
LLrExists ==
  /\ lpc = "lr_exists"
  /\ IF exists(fs, LRFile(lbuf.path))
     THEN /\ lpc' = "read_lr"
          /\ UNCHANGED lbuf
     ELSE /\ lpc' = "done"
          /\ lbuf' = Loaded(lbuf.path, LoadResult("ok", lbuf.w, lbuf.h, None))
  /\ UNCHANGED <<fs, last, wpc, wcall, history, call, ret>>

LReadLR ==
  /\ lpc = "read_lr"
  /\ LET lr_tensor == read_tensor(fs, LRFile(lbuf.path))
     IN  lbuf' = Loaded(lbuf.path,
                        IF IsRaised(lr_tensor) THEN LoadRaised(lr_tensor.dtype)
                        ELSE LoadResult("ok", lbuf.w, lbuf.h, lr_tensor))
  /\ lpc' = "done"
  /\ UNCHANGED <<fs, last, wpc, wcall, history, call, ret>>

\* The caller takes the result; the loader is free for its next call.
LReturn ==
  /\ lpc = "done"
  /\ lpc' = "idle"
  /\ lbuf' = NoCall
  /\ UNCHANGED <<fs, last, wpc, wcall, history, call, ret>>

\* history keeps, of every call that got past its verification, the triple the
\* call writes: W, H and the lr_sched that passes the length assertion.
ConcWriterBegins ==
  \E w \in WHInputs, h \in WHInputs, s \in SInputs, lr \in LRInputs \cup {None} :
    /\ Cardinality(history) < MaxCalls
    /\ WBegin(w, h, s, SharedDir, lr)
    /\ history' = IF verify_reconstruction(w, h, s) = "ok"
                  THEN history \cup {LoadResult("ok", w, h,
                                       IF IsNone(lr) \/ ~lr_len_ok(lr, h) THEN None ELSE lr)}
                  ELSE history

ConcNext ==
  \/ ConcWriterBegins \/ WPutW \/ WPutH \/ WPutLR
  \/ LBegin \/ LReadW \/ LReadH \/ LLrExists \/ LReadLR \/ LReturn

\* A writer and a loader on the same path, their statements interleaved.
SpecConc == Init /\ [][ConcNext]_vars

(* -------------------------- sensitivity scaler ------------------------- *)

RECURSIVE MaxOver(_, _)
MaxOver(f, k) == IF k = 1 THEN f[1] ELSE Max(f[k], MaxOver(f, k - 1))

\* The square of np.max(np.linalg.norm(h_matrix, axis=0)): the largest sum of
\* squares of a column.  The norm itself is its square root.
MaxColNormSq(m) ==
  MaxOver([j \in 1..Cols(m) |-> SumTo([i \in 1..Rows(m) |-> m[i][j] * m[i][j]], Rows(m))],
          Cols(m))

\* IEEE float64 x * sqrt(q) and x / sqrt(q), kept symbolic in q: a division
\* by zero raises nothing and yields nan (0/0) or inf.
TimesSqrt(x, q) == [kind |-> "finite", x |-> x, op |-> "times_sqrt", q |-> q]
OverSqrt(x, q) ==
  IF q = 0
  THEN [kind |-> IF x = 0 THEN "nan" ELSE "inf", x |-> x, op |-> "over_sqrt", q |-> q]
  ELSE [kind |-> "finite", x |-> x, op |-> "over_sqrt", q |-> q]

ScaleResult(exc, w, h) == [exc |-> exc, w |-> w, h |-> h]

scale_w_h_by_single_participation_sensitivity(w_matrix, h_matrix) ==
  LET max_col_norm_sq == MaxColNormSq(h_matrix.val)
  IN  ScaleResult("ok",
        [i \in 1..Rows(w_matrix.val) |->
           [j \in 1..Cols(w_matrix.val) |-> TimesSqrt(w_matrix.val[i][j], max_col_norm_sq)]],
        [i \in 1..Rows(h_matrix.val) |->
           [j \in 1..Cols(h_matrix.val) |-> OverSqrt(h_matrix.val[i][j], max_col_norm_sq)]])

(* ------------------ calls of the functions without state --------------- *)

NoPureCall == [fn |-> "none"]

CanonicalMechanisms == {PREFIX_OPT, PREFIX_ONLINE_HONAKER, PREFIX_FULL_HONAKER}

\* Momenta in thousandths: every hundredth of [0, 1], and the values the
\* resolver rejects (-0.1, 0.005, 0.375, 1.005, 1.5).
Hundredths == {10 * k : k \in 0..100}
MomentumInputs == Hundredths \cup {-100, 5, 375, 1005, 1500}

ScalerInputs == {Tensor("float64", 2, Scaled(v, m)) : v \in 0..MaxVal, m \in Matrices}

PureInit ==
  /\ fs = <<>>
  /\ last = NoCall
  /\ wpc = "idle"
  /\ wcall = NoCall
  /\ lpc = "idle"
  /\ lbuf = NoCall
  /\ history = {}
  /\ call = NoPureCall
  /\ ret = NoPureCall

GetMatrixPath ==
  \E n \in 1..MaxN, mechanism_name \in CanonicalMechanisms :
    /\ call' = [fn |-> "get_matrix_path", n |-> n, mechanism_name |-> mechanism_name]
    /\ ret' = PathResult("ok", get_matrix_path(n, mechanism_name))
    /\ UNCHANGED <<fs, last, wpc, wcall, lpc, lbuf, history>>

GetMomentumPath ==
  \E n \in 1..MaxN, momentum \in MomentumInputs :
    /\ call' = [fn |-> "get_momentum_path", n |-> n, momentum |-> momentum]
    /\ ret' = get_momentum_path(n, momentum)
    /\ UNCHANGED <<fs, last, wpc, wcall, lpc, lbuf, history>>

\* infer_momentum_from_path on the path the call before returned.
InferMomentum ==
  /\ call.fn \in {"get_matrix_path", "get_momentum_path"}
  /\ ret.exc = "ok"
  /\ call' = [fn |-> "infer_momentum_from_path", path |-> ret.path, of |-> call]
  /\ ret' = infer_momentum_from_path(ret.path)
  /\ UNCHANGED <<fs, last, wpc, wcall, lpc, lbuf, history>>

Scale ==
  \E w \in ScalerInputs, h \in ScalerInputs :
    /\ call' = [fn |-> "scale_w_h_by_single_participation_sensitivity", w |-> w, h |-> h]
    /\ ret' = scale_w_h_by_single_participation_sensitivity(w, h)
    /\ UNCHANGED <<fs, last, wpc, wcall, lpc, lbuf, history>>

PureNext == GetMatrixPath \/ GetMomentumPath \/ InferMomentum \/ Scale

SpecPure == PureInit /\ [][PureNext]_vars

(* ------------------ claims about the sequential calls ------------------ *)

\* W @ H is defined and matches S within the tolerance.
Reconstructs(w, h, s) ==
  MatMulDefined(w.val, h.val) /\ AllClose(s.val, MatMul(w.val, h.val))

\* C1: in every reachable store and for every input, a verify_and_write whose W
\* or H is not float64, or whose W @ H does not match S within the tolerance,
\* raises and leaves every blob of the store as it was; and a call that changes
\* any blob is one whose verification passed.
C1_NoWriteUnlessVerified ==
  \A w \in WHInputs, h \in WHInputs, s \in SInputs, d \in OutputDirs,
     lr \in LRInputs \cup {None} :
    LET r == verify_and_write(fs, w, h, s, d, lr)
    IN  /\ (w.dtype # "float64" \/ h.dtype # "float64" \/ ~Reconstructs(w, h, s))
             => (r.exc # "ok" /\ r.at = "verify_reconstruction" /\ r.fs = fs)
        /\ r.fs # fs => (w.dtype = "float64" /\ h.dtype = "float64" /\ Reconstructs(w, h, s))

\* A call failed verification on a store that already holds an artifact.
C1_Witness ==
  /\ last.op = "verify_and_write"
  /\ last.at = "verify_reconstruction"
  /\ last.exc # "ok"
  /\ \E d \in OutputDirs : IsFile(fs, WFile(d)) /\ IsFile(fs, HFile(d))

\* C2: once a verify_and_write has returned, a load of its output_dir returns
\* exactly the (W, H, lr_sched) the call was handed, with None for an omitted
\* lr_sched.
C2_WriteLoadRoundTrip ==
  (last.op = "verify_and_write" /\ last.exc = "ok") =>
    load_w_h_and_maybe_lr(fs, last.path)
      = LoadResult("ok", last.given[1], last.given[2], last.given[3])

\* C4: a load returns a value exactly when its path exists, is a container and
\* holds both mandatory blobs, and the third result is None when the
\* learning-rate blob is absent.
C4_LoadSucceedsIffComplete ==
  last.op = "load_w_h_and_maybe_lr" =>
    LET complete == /\ exists(fs, last.path)
                    /\ isdir(fs, last.path)
                    /\ IsFile(fs, WFile(last.path))
                    /\ IsFile(fs, HFile(last.path))
    IN  /\ last.result.exc = "ok" <=> complete
        /\ (complete /\ ~IsFile(fs, LRFile(last.path))) => IsNone(last.result.lr)

\* C5: a path that holds a learning-rate blob holds both mandatory blobs, and
\* the vector is as long as the H blob at that path has columns.
C5_StoredLRMatchesH ==
  \A d \in OutputDirs :
    IsFile(fs, LRFile(d)) =>
      /\ IsFile(fs, WFile(d))
      /\ IsFile(fs, HFile(d))
      /\ fs[LRFile(d)].shape[1] = fs[HFile(d)].shape[2]

\* C6: in every reachable store and for every input whose lr_sched is not as
\* long as H has columns, verify_and_write raises and the learning-rate blob at
\* output_dir is what it was; the raise is the length assertion when the
\* verification passed.
C6_WrongLengthLRNotWritten ==
  \A w \in WHInputs, h \in WHInputs, s \in SInputs, d \in OutputDirs, lr \in LRInputs :
    LET r == verify_and_write(fs, w, h, s, d, lr)
    IN  Len(lr.val) # Cols(h.val) =>
          /\ r.exc # "ok"
          /\ r.fs[LRFile(d)] = fs[LRFile(d)]
          /\ verify_reconstruction(w, h, s) = "ok" =>
               (r.exc = "AssertionError" /\ r.at = "assert_len")

\* A call ended at the length assertion on a path that holds a learning-rate blob.
C6_Witness ==
  /\ last.op = "verify_and_write"
  /\ last.at = "assert_len"
  /\ IsFile(fs, LRFile(last.path))

(* ------------------ claims about the statements of a call -------------- *)

\* C10: a call's effects come in the order verification, W put, H put, length
\* assertion, learning-rate put: the verification step writes nothing, the
\* second statement puts exactly the W blob, the third exactly the H blob, the
\* last puts the learning-rate blob only when the length assertion passes; a
\* call that ends at the length assertion leaves its W and H at output_dir and
\* the learning-rate blob as it was; and when a call ends, at every path the W
\* blob is present exactly when the H blob is.
C10_OrderOfEffects ==
  [][/\ wpc = "idle" => fs' = fs
     /\ wpc = "put_w" =>
          /\ wpc' = "put_h"
          /\ fs' = [fs EXCEPT ![WFile(wcall.dir)] = serialize_tensor(wcall.w)]
     /\ wpc = "put_h" =>
          /\ wpc' = IF IsNone(wcall.lr) THEN "idle" ELSE "put_lr"
          /\ fs' = [fs EXCEPT ![HFile(wcall.dir)] = serialize_tensor(wcall.h)]
     /\ wpc = "put_lr" =>
          /\ wpc' = "idle"
          /\ IF Len(wcall.lr.val) = Cols(wcall.h.val)
             THEN /\ fs' = [fs EXCEPT ![LRFile(wcall.dir)] = serialize_tensor(wcall.lr)]
                  /\ last'.exc = "ok"
             ELSE /\ fs' = fs
                  /\ last'.exc = "AssertionError"
                  /\ last'.at = "assert_len"
                  /\ fs'[WFile(wcall.dir)] = serialize_tensor(wcall.w)
                  /\ fs'[HFile(wcall.dir)] = serialize_tensor(wcall.h)
     /\ wpc' = "idle" =>
          \A d \in OutputDirs : IsFile(fs', WFile(d)) <=> IsFile(fs', HFile(d))
    ]_vars

\* A call ended at the length assertion: its W and H are stored at a path that
\* held other blobs and a learning-rate blob before, and that blob is still there.
C10_Witness ==
  /\ wpc = "idle"
  /\ last.op = "verify_and_write"
  /\ last.at = "assert_len"
  /\ IsFile(fs, WFile(last.path))
  /\ IsFile(fs, HFile(last.path))
  /\ IsFile(fs, LRFile(last.path))
  /\ fs[LRFile(last.path)].shape[1] # fs[HFile(last.path)].shape[2]

(* --------------------- claims about concurrent calls ------------------- *)

\* C3: a load that runs while verify_and_write calls put blobs at the same path
\* raises, or returns a triple that one single call wrote.
C3_LoadNeverMixesWrites ==
  lpc = "done" => (lbuf.result.exc # "ok" \/ lbuf.result \in history)

(* ------------------ claims about the stateless functions --------------- *)

\* C7: for every n and every hundredth m of [0, 1], both ends included,
\* get_momentum_path(n, m) returns a path and infer_momentum_from_path of that
\* path returns m.
C7_MomentumRoundTrip ==
  /\ (call.fn = "get_momentum_path" /\ call.momentum \in Hundredths) => ret.exc = "ok"
  /\ (/\ call.fn = "infer_momentum_from_path"
      /\ call.of.fn = "get_momentum_path"
      /\ call.of.momentum \in Hundredths)
       => ret = OptSome(call.of.momentum)

\* The keys of the resolver: a canonical mechanism name, or a momentum.
NameKey(name) == [kind |-> "name", name |-> name, momentum |-> 0]
MomentumKey(m) == [kind |-> "momentum", name |-> <<>>, momentum |-> m]
Keys == {NameKey(name) : name \in CanonicalMechanisms} \cup {MomentumKey(m) : m \in Hundredths}
KeyOf(c) == IF c.fn = "get_matrix_path" THEN NameKey(c.mechanism_name)
            ELSE MomentumKey(c.momentum)
Resolve(n, key) == IF key.kind = "name" THEN get_matrix_path(n, key.name)
                   ELSE get_momentum_path(n, key.momentum).path
\* The mechanism segment of a key: the name, or momentum_0p and the hundredths
\* in at least two digits.
Segment(key) ==
  IF key.kind = "name" THEN key.name
  ELSE <<"momentum_0p">> \o
       (IF key.momentum < 100 THEN <<"0">> ELSE <<>>) \o Digits(key.momentum \div 10)

\* C8: the path a resolver call returns for (n, key) is the root, "/", the
\* mechanism segment, "/size=" and n in decimal; every call with the same
\* (n, key) returns that same path and no call with another (n, key) does.
C8_PathInjective ==
  (call.fn \in {"get_matrix_path", "get_momentum_path"} /\ ret.exc = "ok") =>
    /\ ret.path = MATRIX_ROOT_PATH \o <<"/">> \o Segment(KeyOf(call))
                    \o <<"/", "size=">> \o Digits(call.n)
    /\ \A n \in 1..MaxN, key \in Keys :
         Resolve(n, key) = ret.path <=> (n = call.n /\ key = KeyOf(call))

\* A path of two-digit size was resolved for a momentum.
C8_Witness ==
  /\ call.fn = "get_momentum_path"
  /\ ret.exc = "ok"
  /\ call.n >= 10
  /\ call.momentum = 1000

\* C9: the scaler raises when H has zero norm: it returns no pair then.
C9_ZeroNormRaises ==
  (/\ call.fn = "scale_w_h_by_single_participation_sensitivity"
   /\ MaxColNormSq(call.h.val) = 0)
    => ret.exc # "ok"

====
